---- MODULE Spec2Model ----
(***************************************************************************)
(* Model of execute_code_safely (src/app.py:171-207) and of its caller in  *)
(* main (src/app.py:337-339).                                              *)
(*                                                                         *)
(* Text is a sequence of chunks; a chunk is a literal piece of a Python    *)
(* string.  The chunks used are prefix-free, so two texts are equal as     *)
(* Python strings exactly when they are equal as chunk sequences.  The     *)
(* empty string is << >>.                                                  *)
(*                                                                         *)
(* A source text is a sequence of statements, each standing for one line   *)
(* of Python handed to exec():                                             *)
(*   print_hi      print('hi')                                             *)
(*   print_sent    print('Code executed successfully (no output)', end='') *)
(*   print_tag     print('Error: ', end='')                                *)
(*   bind_x        x = 1                                                   *)
(*   ref_x         print(x)                                                *)
(*   ext_x         __builtins__['x'] = 1                                   *)
(*   ref_builtins  print(__builtins__ is not None)                         *)
(*   import_os     import os                                               *)
(*   div_zero      1/0                                                     *)
(*   assert_false  assert False                                            *)
(*   sys_exit      raise print.__self__.SystemExit()                       *)
(*   esc_set       print.__self__.flag = 1                                 *)
(*   esc_get       print(print.__self__.__dict__.get('flag', 0))           *)
(*   syntax_err    )(                                                      *)
(***************************************************************************)
EXTENDS Integers, Sequences, FiniteSets, TLC

\* ------------------------------------------------------------------ bounds
MaxLen == 2
MaxCalls == 2
\* Two sessions of the process, each able to call the function.
Threads == {1, 2}

\* ------------------------------------------------------------ streams
\* sys.stdout holds a stream object: one of the host's own streams, or the
\* io.StringIO() made by invocation number id.
HostStreams == {[kind |-> "host", id |-> 0], [kind |-> "host", id |-> 1]}
NoStream == [kind |-> "none", id |-> 0]
Capture(n) == [kind |-> "capture", id |-> n]

\* ------------------------------------------------------------ literals
Sentinel == <<"Code executed successfully (no output)">>
ErrorTag == "Error: "

\* The sixteen keys of the dict bound to '__builtins__'.
Allowlist ==
  {"print", "len", "str", "int", "float", "list", "dict", "range",
   "enumerate", "zip", "max", "min", "sum", "sorted", "abs", "round"}

\* The globals dict literal handed to exec(): its only key.
InitialGlobals == {"__builtins__"}

\* The allowlist values are the host's own objects, not wrappers.  Those
\* that are built-in functions carry __self__, the host's builtins module.
BuiltinFunctions == {"print", "len", "max", "min", "sum", "sorted", "abs", "round"}

\* ------------------------------------------------------------ statements
PrintStmts == {"print_hi", "print_sent", "print_tag"}
Stmts ==
  PrintStmts \cup
  {"bind_x", "ref_x", "ext_x", "ref_builtins", "import_os", "div_zero",
   "assert_false", "sys_exit", "esc_set", "esc_get", "syntax_err"}
\* The statements used where invocations overlap: a write and a fault.
ConcStmts == {"print_hi", "div_zero"}

SeqsUpTo(S, n) == UNION {[1..k -> S] : k \in 0..n}
Sources == SeqsUpTo(Stmts, MaxLen)
ConcSources == SeqsUpTo(ConcStmts, MaxLen)

\* ------------------------------------------------------------ exceptions
NoExc == [type |-> "none", msg |-> <<>>]
\* Classes deriving from Exception; SystemExit derives from BaseException only.
ExceptionTypes ==
  {"SyntaxError", "NameError", "ImportError", "ZeroDivisionError", "AssertionError",
   "AttributeError"}
IsException(e) == e.type \in ExceptionTypes

\* str(NameError) for an unresolved name.
NotDefined(n) == <<"name '", n, "' is not defined">>
ImportMsg == <<"__import__ not found">>
SyntaxMsg == <<"unmatched ')' (<string>, line 1)">>
ZeroDivMsg == <<"division by zero">>

\* str(e)
ExcStr(e) == e.msg

\* Name resolution inside exec(): module globals first, then the mapping
\* bound to '__builtins__'.
Resolves(n, g, b) == n \in g \/ n \in b

\* compile() rejects the whole text before any of it runs.
HasSyntaxError(src) == \E i \in 1..Len(src) : src[i] = "syntax_err"

\* One statement run against globals g, builtins mapping b and the host
\* attribute flag: the text it writes, the new g, b and flag, and the
\* exception it raises.
StmtEffect(s, g, b, flag) ==
  LET ok(w) == [write |-> w, g |-> g, b |-> b, flag |-> flag, exc |-> NoExc]
      raise(ty, m) ==
        [write |-> <<>>, g |-> g, b |-> b, flag |-> flag,
         exc |-> [type |-> ty, msg |-> m]]
      needs(n, r) == IF Resolves(n, g, b) THEN r ELSE raise("NameError", NotDefined(n))
      self(n, r) ==
        IF n \in BuiltinFunctions THEN r
        ELSE raise("AttributeError", <<"no attribute '__self__'">>)
  IN CASE s = "print_hi" -> needs("print", ok(<<"hi\n">>))
       [] s = "print_sent" -> needs("print", ok(Sentinel))
       [] s = "print_tag" -> needs("print", ok(<<ErrorTag>>))
       [] s = "bind_x" -> [ok(<<>>) EXCEPT !.g = g \cup {"x"}]
       [] s = "ref_x" -> needs("print", needs("x", ok(<<"1\n">>)))
       [] s = "ext_x" -> needs("__builtins__", [ok(<<>>) EXCEPT !.b = b \cup {"x"}])
       [] s = "ref_builtins" -> needs("print", needs("__builtins__", ok(<<"True\n">>)))
       [] s = "import_os" ->
            IF "__import__" \in b THEN ok(<<>>) ELSE raise("ImportError", ImportMsg)
       [] s = "div_zero" -> raise("ZeroDivisionError", ZeroDivMsg)
       [] s = "assert_false" -> raise("AssertionError", <<>>)
       [] s = "sys_exit" -> needs("print", self("print", raise("SystemExit", <<>>)))
       [] s = "esc_set" -> needs("print", self("print", [ok(<<>>) EXCEPT !.flag = 1]))
       [] s = "esc_get" ->
            needs("print", self("print", ok(IF flag = 1 THEN <<"1\n">> ELSE <<"0\n">>)))
       [] OTHER -> raise("SyntaxError", SyntaxMsg)

\* Variant: the captured text is returned as it is, even when empty.
RelayRaw(output) == output

\* return output if output else "Code executed successfully (no output)"
Relay(output) == IF output # <<>> THEN output ELSE Sentinel

\* Variant: the message is returned without the tag.
FailureUntagged(e) == ExcStr(e)

\* f"Error: {str(e)}"
Failure(e) == <<ErrorTag>> \o ExcStr(e)

\* ------------------------------------------------------------------ state
VARIABLES
  stdout,           \* sys.stdout, process-wide
  hostFlag,         \* an attribute of the host's builtins module, process-wide
  calls,            \* invocations started so far
  made,             \* StringIO objects created so far
  pc,               \* where each thread is in execute_code_safely
  code,             \* the argument
  ip,               \* next statement of code to run
  old_stdout,       \* local
  captured_output,  \* local: the StringIO of this invocation
  content,          \* what captured_output.getvalue() would return
  exec_globals,     \* local: keys of the globals dict
  builtins,         \* local: keys of exec_globals['__builtins__']
  exc,              \* the exception in flight, handled or propagating
  output,           \* local
  retval,           \* the value returned
  wrote,            \* history: the text this invocation's source wrote
  foreign,          \* history: another invocation's write landed in this buffer
  overlapped        \* history: some invocation began while another was running

vars ==
  <<stdout, hostFlag, calls, made, pc, code, ip, old_stdout, captured_output, content,
    exec_globals, builtins, exc, output, retval, wrote, foreign, overlapped>>

Running(t) == pc[t] \notin {"idle", "returned", "raised"}
Exited(t) == pc[t] \in {"returned", "raised"}

Init ==
  /\ stdout \in HostStreams
  /\ hostFlag = 0
  /\ calls = 0
  /\ made = 0
  /\ pc = [t \in Threads |-> "idle"]
  /\ code = [t \in Threads |-> <<>>]
  /\ ip = [t \in Threads |-> 1]
  /\ old_stdout = [t \in Threads |-> NoStream]
  /\ captured_output = [t \in Threads |-> NoStream]
  /\ content = [t \in Threads |-> <<>>]
  /\ exec_globals = [t \in Threads |-> {}]
  /\ builtins = [t \in Threads |-> {}]
  /\ exc = [t \in Threads |-> NoExc]
  /\ output = [t \in Threads |-> <<>>]
  /\ retval = [t \in Threads |-> <<>>]
  /\ wrote = [t \in Threads |-> <<>>]
  /\ foreign = [t \in Threads |-> FALSE]
  /\ overlapped = FALSE

\* A thread outside the function may call it.
CanEnter(t) == pc[t] = "idle" /\ calls < MaxCalls

\* Line 174: old_stdout = sys.stdout
Enter(t, src) ==
  /\ calls' = calls + 1
  /\ code' = [code EXCEPT ![t] = src]
  /\ old_stdout' = [old_stdout EXCEPT ![t] = stdout]
  /\ overlapped' = (overlapped \/ \E u \in Threads \ {t} : Running(u))
  /\ pc' = [pc EXCEPT ![t] = "redirect"]
  /\ UNCHANGED <<stdout, hostFlag, made, ip, captured_output, content, exec_globals,
                 builtins, exc, output, retval, wrote, foreign>>

\* The caller of main(): one interactive session, one call at a time.
Call(t) ==
  /\ CanEnter(t)
  /\ \A u \in Threads \ {t} : pc[u] = "idle"
  /\ \E src \in Sources : Enter(t, src)

\* Calls from several sessions of the same process, free to overlap.
CallOverlapping(t) ==
  /\ CanEnter(t)
  /\ \E src \in ConcSources : Enter(t, src)

\* Variant: lines 174 and 175 in the other order, so that the stream saved
\* is the StringIO itself.
RedirectBeforeSave(t) ==
  /\ pc[t] = "redirect"
  /\ made' = made + 1
  /\ stdout' = Capture(made + 1)
  /\ captured_output' = [captured_output EXCEPT ![t] = Capture(made + 1)]
  /\ old_stdout' = [old_stdout EXCEPT ![t] = Capture(made + 1)]
  /\ content' = [content EXCEPT ![t] = <<>>]
  /\ pc' = [pc EXCEPT ![t] = "build"]
  /\ UNCHANGED <<hostFlag, calls, code, ip, exec_globals, builtins, exc, output,
                 retval, wrote, foreign, overlapped>>

\* Line 175: sys.stdout = captured_output = io.StringIO()
Redirect(t) ==
  /\ pc[t] = "redirect"
  /\ made' = made + 1
  /\ stdout' = Capture(made + 1)
  /\ captured_output' = [captured_output EXCEPT ![t] = Capture(made + 1)]
  /\ content' = [content EXCEPT ![t] = <<>>]
  /\ pc' = [pc EXCEPT ![t] = "build"]
  /\ UNCHANGED <<hostFlag, calls, code, ip, old_stdout, exec_globals, builtins,
                 exc, output, retval, wrote, foreign, overlapped>>

\* Lines 179-198: exec_globals = {'__builtins__': {...}}
BuildEnv(t) ==
  /\ pc[t] = "build"
  /\ exec_globals' = [exec_globals EXCEPT ![t] = InitialGlobals]
  /\ builtins' = [builtins EXCEPT ![t] = Allowlist]
  /\ pc' = [pc EXCEPT ![t] = "exec"]
  /\ UNCHANGED <<stdout, hostFlag, calls, made, code, ip, old_stdout, captured_output,
                 content, exc, output, retval, wrote, foreign, overlapped>>

\* Line 200, first half: exec() compiles the text.
Parse(t) ==
  /\ pc[t] = "exec"
  /\ IF HasSyntaxError(code[t])
       THEN /\ exc' = [exc EXCEPT ![t] = [type |-> "SyntaxError", msg |-> SyntaxMsg]]
            /\ pc' = [pc EXCEPT ![t] = "except"]
       ELSE /\ exc' = exc
            /\ pc' = [pc EXCEPT ![t] = "run"]
  /\ UNCHANGED <<stdout, hostFlag, calls, made, code, ip, old_stdout, captured_output,
                 content, exec_globals, builtins, output, retval, wrote, foreign,
                 overlapped>>

\* The invocation whose StringIO sys.stdout currently is, if it still exists.
Owner(s) == {u \in Threads : Running(u) /\ captured_output[u] = s}

\* Line 200, second half: exec() runs one statement.  print() writes to
\* whatever sys.stdout is at that moment.
Step(t) ==
  /\ pc[t] = "run"
  /\ ip[t] <= Len(code[t])
  /\ LET r == StmtEffect(code[t][ip[t]], exec_globals[t], builtins[t], hostFlag)
     IN /\ exec_globals' = [exec_globals EXCEPT ![t] = r.g]
        /\ builtins' = [builtins EXCEPT ![t] = r.b]
        /\ hostFlag' = r.flag
        /\ wrote' = [wrote EXCEPT ![t] = @ \o r.write]
        /\ content' = [u \in Threads |->
                         IF u \in Owner(stdout) THEN content[u] \o r.write
                         ELSE content[u]]
        /\ foreign' = [u \in Threads |->
                         foreign[u] \/ (u \in Owner(stdout) /\ u # t /\ r.write # <<>>)]
        /\ exc' = [exc EXCEPT ![t] = r.exc]
        /\ IF r.exc = NoExc
             THEN /\ ip' = [ip EXCEPT ![t] = @ + 1]
                  /\ pc' = pc
             ELSE /\ ip' = ip
                  /\ pc' = [pc EXCEPT ![t] = "except"]
  /\ UNCHANGED <<stdout, calls, made, code, old_stdout, captured_output, output, retval,
                 overlapped>>

\* Line 201: output = captured_output.getvalue()
GetValue(t) ==
  /\ pc[t] = "run"
  /\ ip[t] > Len(code[t])
  /\ output' = [output EXCEPT ![t] = content[t]]
  /\ pc' = [pc EXCEPT ![t] = "relay"]
  /\ UNCHANGED <<stdout, hostFlag, calls, made, code, ip, old_stdout, captured_output,
                 content, exec_globals, builtins, exc, retval, wrote, foreign,
                 overlapped>>

\* Line 202: return output if output else "Code executed successfully (no output)"
Return(t) ==
  /\ pc[t] = "relay"
  /\ retval' = [retval EXCEPT ![t] = Relay(output[t])]
  /\ pc' = [pc EXCEPT ![t] = "finally"]
  /\ UNCHANGED <<stdout, hostFlag, calls, made, code, ip, old_stdout, captured_output,
                 content, exec_globals, builtins, exc, output, wrote, foreign,
                 overlapped>>

\* Variant: the handler returns what was captured so far, then the message.
ExceptPrependsOutput(t) ==
  /\ pc[t] = "except"
  /\ retval' = [retval EXCEPT ![t] =
                  IF exc[t].type \in ExceptionTypes
                    THEN content[t] \o <<ErrorTag>> \o exc[t].msg
                    ELSE @]
  /\ pc' = [pc EXCEPT ![t] = "finally"]
  /\ UNCHANGED <<stdout, hostFlag, calls, made, code, ip, old_stdout, captured_output,
                 content, exec_globals, builtins, exc, output, wrote, foreign,
                 overlapped>>

\* Lines 204-205: except Exception as e: return f"Error: {str(e)}"
\* An exception that is no instance of Exception passes the clause by.
Except(t) ==
  /\ pc[t] = "except"
  /\ retval' = [retval EXCEPT ![t] = IF IsException(exc[t]) THEN Failure(exc[t]) ELSE @]
  /\ pc' = [pc EXCEPT ![t] = "finally"]
  /\ UNCHANGED <<stdout, hostFlag, calls, made, code, ip, old_stdout, captured_output,
                 content, exec_globals, builtins, exc, output, wrote, foreign,
                 overlapped>>

\* Whether the frame leaves by return or by an exception still in flight.
Propagates(e) == e # NoExc /\ ~IsException(e)

\* Variant: the restore sits after the try statement instead of in a finally
\* clause, so only the path that returns from the try body runs it.
FinallySkippedOnFault(t) ==
  /\ pc[t] = "finally"
  /\ stdout' = IF exc[t] = NoExc THEN old_stdout[t] ELSE stdout
  /\ pc' = [pc EXCEPT ![t] =
              IF exc[t] # NoExc /\ exc[t].type \notin ExceptionTypes
                THEN "raised" ELSE "returned"]
  /\ content' = [content EXCEPT ![t] = <<>>]
  /\ exec_globals' = [exec_globals EXCEPT ![t] = {}]
  /\ builtins' = [builtins EXCEPT ![t] = {}]
  /\ UNCHANGED <<hostFlag, calls, made, code, ip, old_stdout, captured_output, exc,
                 output, retval, wrote, foreign, overlapped>>

\* Lines 206-207: finally: sys.stdout = old_stdout.  The frame's locals
\* (the StringIO, the globals dict) die with it.
Finally(t) ==
  /\ pc[t] = "finally"
  /\ stdout' = old_stdout[t]
  /\ pc' = [pc EXCEPT ![t] = IF Propagates(exc[t]) THEN "raised" ELSE "returned"]
  /\ content' = [content EXCEPT ![t] = <<>>]
  /\ exec_globals' = [exec_globals EXCEPT ![t] = {}]
  /\ builtins' = [builtins EXCEPT ![t] = {}]
  /\ UNCHANGED <<hostFlag, calls, made, code, ip, old_stdout, captured_output, exc,
                 output, retval, wrote, foreign, overlapped>>

\* main(), lines 338-339: the caller takes the value (or the exception) and
\* the frame is gone.
Collect(t) ==
  /\ Exited(t)
  /\ pc' = [pc EXCEPT ![t] = "idle"]
  /\ code' = [code EXCEPT ![t] = <<>>]
  /\ ip' = [ip EXCEPT ![t] = 1]
  /\ old_stdout' = [old_stdout EXCEPT ![t] = NoStream]
  /\ captured_output' = [captured_output EXCEPT ![t] = NoStream]
  /\ exc' = [exc EXCEPT ![t] = NoExc]
  /\ output' = [output EXCEPT ![t] = <<>>]
  /\ retval' = [retval EXCEPT ![t] = <<>>]
  /\ wrote' = [wrote EXCEPT ![t] = <<>>]
  /\ foreign' = [foreign EXCEPT ![t] = FALSE]
  /\ UNCHANGED <<stdout, hostFlag, calls, made, content, exec_globals, builtins,
                 overlapped>>

Body(t) ==
  \/ Redirect(t)
  \/ BuildEnv(t)
  \/ Parse(t)
  \/ Step(t)
  \/ GetValue(t)
  \/ Return(t)
  \/ Except(t)
  \/ Finally(t)
  \/ Collect(t)

\* One interactive session at a time: invocations never overlap.
Next == \E t \in Threads : Call(t) \/ Body(t)
Spec == Init /\ [][Next]_vars

\* Several sessions of one process: invocations may overlap.
NextConc == \E t \in Threads : CallOverlapping(t) \/ Body(t)
SpecConc == Init /\ [][NextConc]_vars

\* ------------------------------------------------------------------ claims
\* What happened in invocation t, as opposed to what it returned.
Kind(t) ==
  IF exc[t] # NoExc THEN "error" ELSE IF wrote[t] = <<>> THEN "empty" ELSE "output"

\* A text some Failure produces: it begins with the tag.
IsFailureText(v) == Len(v) >= 1 /\ v[1] = ErrorTag

\* C1: with invocations one after another, whenever an invocation has left
\* execute_code_safely (by return or by an exception), sys.stdout is the
\* stream that was installed when it was entered, and that stream is one of
\* the host's, never a StringIO; the same when nothing is running.
C1_StdoutRestored ==
  /\ \A t \in Threads : Exited(t) => stdout = old_stdout[t] /\ stdout \in HostStreams
  /\ (\A t \in Threads : ~Running(t)) => stdout \in HostStreams

\* C1 witness: the second invocation in a row wrote text, faulted with an
\* exception the handler does not catch, and left with stdout restored.
C1_Witness ==
  \E t \in Threads :
    /\ pc[t] = "raised"
    /\ calls = 2
    /\ wrote[t] # <<>>
    /\ stdout = old_stdout[t]

\* C2: no fault leaves execute_code_safely as an exception.
C2_NoFaultPropagates == \A t \in Threads : pc[t] # "raised"

\* C3: an invocation that did not fault returns exactly the text its source
\* wrote, or the sentinel when it wrote none; never the empty string.
C3_SuccessText ==
  \A t \in Threads :
    (pc[t] = "returned" /\ exc[t] = NoExc) =>
      /\ output[t] = wrote[t]
      /\ retval[t] = (IF wrote[t] = <<>> THEN Sentinel ELSE wrote[t])
      /\ retval[t] # <<>>

\* C3 witness: a source that wrote two pieces of text got both back.
C3_Witness ==
  \E t \in Threads :
    /\ pc[t] = "returned"
    /\ exc[t] = NoExc
    /\ Len(wrote[t]) = 2
    /\ retval[t] = wrote[t]

\* The identifier a statement reads that is no key of the allowlist.
OutsideName(s) ==
  CASE s = "ref_x" -> "x"
    [] s = "ref_builtins" -> "__builtins__"
    [] s = "ext_x" -> "__builtins__"
    [] s = "import_os" -> "__import__"
    [] OTHER -> "print"

\* Texts that say an identifier is missing.
UndefinedTexts ==
  {<<ErrorTag>> \o NotDefined(n) : n \in {"x", "__builtins__", "__import__"}}
    \cup {<<ErrorTag>> \o ImportMsg}

\* C4: a source that parses and whose statement i reads an identifier
\* outside the allowlist, with nothing but writes before it, returns a
\* Failure saying the identifier is missing.
C4_OutsideNameFails ==
  \A t \in Threads :
    \A i \in 1..Len(code[t]) :
      ( /\ Exited(t)
        /\ ~HasSyntaxError(code[t])
        /\ OutsideName(code[t][i]) \notin Allowlist
        /\ \A j \in 1..(i - 1) : code[t][j] \in PrintStmts )
      => (pc[t] = "returned" /\ retval[t] \in UndefinedTexts)

\* C5: while a source runs, the mapping bound to '__builtins__' is the
\* sixteen-entry allowlist, and the host's own state is never changed.
C5_Confined ==
  /\ hostFlag = 0
  /\ \A t \in Threads :
       pc[t] \in {"exec", "run", "relay", "except", "finally"} => builtins[t] = Allowlist

RECURSIVE RunFrom(_, _, _, _, _, _)
\* The value a source returns when run from statement i on, in a process
\* whose host state is flag.
RunFrom(src, i, g, b, flag, out) ==
  IF i > Len(src) THEN Relay(out)
  ELSE LET r == StmtEffect(src[i], g, b, flag)
       IN IF r.exc # NoExc THEN Failure(r.exc)
          ELSE RunFrom(src, i + 1, r.g, r.b, r.flag, out \o r.write)

\* The value a source returns in a process that has run nothing before.
FreshResult(src) ==
  IF HasSyntaxError(src) THEN Failure([type |-> "SyntaxError", msg |-> SyntaxMsg])
  ELSE RunFrom(src, 1, InitialGlobals, Allowlist, 0, <<>>)

\* C6: what an invocation returns is what its source returns in a process
\* that has run nothing before: it does not depend on earlier invocations.
C6_HistoryFree ==
  \A t \in Threads : pc[t] = "returned" => retval[t] = FreshResult(code[t])

\* C7: every fault that is reported is reported as the tag followed by a
\* message, and the message is not empty.
C7_TaggedMessage ==
  \A t \in Threads :
    (pc[t] = "returned" /\ exc[t] # NoExc) =>
      /\ IsFailureText(retval[t])
      /\ Len(retval[t]) >= 2

\* C8: as long as no invocation began while another was running, stdout is
\* a host stream whenever nothing runs, no write of one invocation lands in
\* another's buffer, and a non-faulting invocation returns its own text.
C8_SerializedSafe ==
  ~overlapped =>
    /\ (\A t \in Threads : ~Running(t)) => stdout \in HostStreams
    /\ \A t \in Threads :
         /\ ~foreign[t]
         /\ (pc[t] = "returned" /\ exc[t] = NoExc) => retval[t] = Relay(wrote[t])

\* C8 witness: two invocations overlapped, both have returned, stdout is
\* left on a StringIO nobody holds, and one of them returned text the
\* other wrote.
C8_Witness ==
  /\ overlapped
  /\ \A t \in Threads : pc[t] = "returned"
  /\ stdout.kind = "capture"
  /\ \E t \in Threads : foreign[t] /\ wrote[t] = <<>> /\ retval[t] = <<"hi\n">>

\* C9: a returned value has exactly one of three shapes, fixed by what
\* happened: after a fault it is the tag and the message and nothing of
\* what was written; otherwise the whole captured text, or the sentinel
\* when that is empty.
C9_ThreeShapes ==
  \A t \in Threads :
    pc[t] = "returned" =>
      IF exc[t] # NoExc THEN retval[t] = <<ErrorTag>> \o exc[t].msg
      ELSE IF output[t] # <<>> THEN retval[t] = output[t]
      ELSE retval[t] = Sentinel

\* C9 witness: a source wrote text and then divided by zero; the value
\* returned is the Failure text alone.
C9_Witness ==
  \E t \in Threads :
    /\ pc[t] = "returned"
    /\ exc[t].type = "ZeroDivisionError"
    /\ wrote[t] # <<>>
    /\ retval[t] = <<ErrorTag, "division by zero">>

====
